---------------------------- MODULE Spec2Model ----------------------------
(***************************************************************************)
(* Model of the two screens of the membership application:                 *)
(*   EditStudentForm     (src/unnamed/part_000)                            *)
(*   ExpiredMemberships  (src/Frontend/src/pages/ExpiredMemberships.tsx)   *)
(* Each React component is a state machine: its useState cells are the     *)
(* variables, every event handler / effect / promise continuation is an    *)
(* action.  A handler and the effects its state change triggers form one   *)
(* action (React flushes the effects of a render before the next event).   *)
(* An await splits a handler: the request is put in flight (variable net)  *)
(* together with the values its continuation closes over, and the          *)
(* continuation is the action that takes it out again.                     *)
(***************************************************************************)
EXTENDS Integers, Sequences, FiniteSets, TLC

(***************************************************************************)
(* Bounds of the model.                                                    *)
(***************************************************************************)
\* longest text a number field is given in one edit
MaxLen == 2
\* most requests / timers outstanding at once
MaxInflight == 2

(***************************************************************************)
(* JavaScript values.                                                      *)
(***************************************************************************)
\* null where a number is expected (branchId: number | null); an object or
\* null is a sequence of at most one record
Null == -1

\* A string is a sequence of one-character strings.

RECURSIVE SeqsUpTo(_, _)
SeqsUpTo(chars, n) ==
  IF n = 0 THEN { << >> }
  ELSE LET shorter == SeqsUpTo(chars, n - 1)
       IN  shorter \cup { Append(s, c) : s \in shorter, c \in chars }

IsSpace(c) == c = " "

RECURSIVE TrimStart(_)
TrimStart(s) ==
  IF s = << >> THEN s
  ELSE IF IsSpace(Head(s)) THEN TrimStart(Tail(s)) ELSE s

RECURSIVE TrimEnd(_)
TrimEnd(s) ==
  IF s = << >> THEN s
  ELSE IF IsSpace(s[Len(s)]) THEN TrimEnd(SubSeq(s, 1, Len(s) - 1)) ELSE s

\* String.prototype.trim
Trim(s) == TrimEnd(TrimStart(s))

Digits == << "0", "1", "2", "3", "4", "5", "6", "7", "8", "9" >>
IsDigit(c) == \E i \in 1..10 : Digits[i] = c
DigitVal(c) == (CHOOSE i \in 1..10 : Digits[i] = c) - 1

RECURSIVE Pow10(_)
Pow10(n) == IF n = 0 THEN 1 ELSE 10 * Pow10(n - 1)

\* Numbers are held exactly, in units of 10^-FracDigits (no text of the
\* model has more fraction digits than that).
FracDigits == MaxLen + 1
Scale == Pow10(FracDigits)

\* length of the longest prefix of s made of digits
RECURSIVE DigitRun(_)
DigitRun(s) ==
  IF s = << >> \/ ~IsDigit(Head(s)) THEN 0 ELSE 1 + DigitRun(Tail(s))

\* value of a run of digits read as an integer
RECURSIVE IntOf(_)
IntOf(s) ==
  IF s = << >> THEN 0 ELSE 10 * IntOf(SubSeq(s, 1, Len(s) - 1)) + DigitVal(s[Len(s)])

Drop(s, n) == SubSeq(s, n + 1, Len(s))
Take(s, n) == SubSeq(s, 1, n)

NaN == [nan |-> TRUE, v |-> 0]
Num(v) == [nan |-> FALSE, v |-> v]

\* parseFloat: skip leading white space, then read the longest prefix that
\* is a decimal literal ([+-] digits [. digits] or [+-] . digits); NaN when
\* there is none.  (The texts of the model hold no exponent and no
\* "Infinity".)  The value is in units of 1/Scale.
parseFloat(str) ==
  LET s    == TrimStart(str)
      neg  == s # << >> /\ Head(s) = "-"
      sgn  == s # << >> /\ Head(s) \in {"-", "+"}
      body == IF sgn THEN Tail(s) ELSE s
      ni   == DigitRun(body)
      rest == Drop(body, ni)
      dot  == rest # << >> /\ Head(rest) = "."
      nf   == IF dot THEN DigitRun(Tail(rest)) ELSE 0
      frac == IF dot THEN Take(Tail(rest), nf) ELSE << >>
      mag  == IntOf(Take(body, ni)) * Scale + IntOf(frac) * Pow10(FracDigits - nf)
  IN  IF ni = 0 /\ nf = 0 THEN NaN
      ELSE Num(IF neg THEN 0 - mag ELSE mag)

\* x || 0 on a number: NaN and 0 are falsy
OrZero(x) == IF x.nan \/ x.v = 0 THEN 0 ELSE x.v

\* Number.prototype.toFixed(2): the nearest multiple of 0.01, a tie going
\* away from zero; the result is the number of hundredths shown.
toFixed2(v) ==
  LET mag == IF v < 0 THEN 0 - v ELSE v
      h   == (mag * 100 + (Scale \div 2)) \div Scale
  IN  IF v < 0 THEN 0 - h ELSE h

\* Number.prototype.toString of a whole number >= 0
RECURSIVE toString(_)
toString(n) ==
  IF n < 10 THEN << Digits[n + 1] >>
  ELSE Append(toString(n \div 10), Digits[(n % 10) + 1])


(***************************************************************************)
(* Calendar dates as exchanged with the gateway: 'YYYY-MM-DD' texts.       *)
(***************************************************************************)
Pad2(n) == IF n < 10 THEN << "0" >> \o toString(n) ELSE toString(n)
DateStr(y, m, d) == toString(y) \o << "-" >> \o Pad2(m) \o << "-" >> \o Pad2(d)

\* index of the first c in s, 0 when there is none
RECURSIVE IndexOf(_, _)
IndexOf(s, c) ==
  IF s = << >> THEN 0
  ELSE IF Head(s) = c THEN 1
  ELSE LET i == IndexOf(Tail(s), c) IN IF i = 0 THEN 0 ELSE i + 1

\* str.split('T')[0]
SplitT0(s) == LET i == IndexOf(s, "T") IN IF i = 0 THEN s ELSE Take(s, i - 1)

AllDigits(s) == \A i \in 1..Len(s) : IsDigit(s[i])

\* new Date(str).valueOf() for a date-only text: a number that orders as the
\* calendar does, NaN for a text that is no date (the empty text included)
DateValue(s) ==
  IF /\ Len(s) = 10
     /\ s[5] = "-" /\ s[8] = "-"
     /\ AllDigits(Take(s, 4)) /\ AllDigits(SubSeq(s, 6, 7)) /\ AllDigits(SubSeq(s, 9, 10))
     /\ IntOf(SubSeq(s, 6, 7)) \in 1..12
     /\ IntOf(SubSeq(s, 9, 10)) \in 1..31
  THEN Num(IntOf(Take(s, 4)) * 10000 + IntOf(SubSeq(s, 6, 7)) * 100 + IntOf(SubSeq(s, 9, 10)))
  ELSE NaN

\* a >= b on numbers: false as soon as one side is NaN
Geq(a, b) == ~a.nan /\ ~b.nan /\ a.v >= b.v

(***************************************************************************)
(* The Remote Data Gateway (external).  It answers from fixed reference    *)
(* data; any request may also fail.                                        *)
(***************************************************************************)
Branches == {1, 2}
Shifts == {1, 2}
Seats == {1, 2}

\* getSeats({branchId}): the seats of one branch (branch 2 has none)
SeatsOfBranch(b) == IF b = 1 THEN {1, 2} ELSE {}

\* getAvailableShifts(seatId): the shifts with no assignment on that seat
\* (seat 1 is taken in both shifts, in shift 2 by member 1)
AvailableShiftsOf(seat) == IF seat = 1 THEN {} ELSE {1, 2}

Day1 == DateStr(2024, 1, 10)
Day2 == DateStr(2024, 2, 10)

\* getStudent(id): the members the gateway may return for the edited id
GatewayStudents ==
  { [ id |-> 1, name |-> << "a" >>, email |-> << >>, phone |-> << "1" >>,
      address |-> << "a" >>, branchId |-> 1,
      membershipStart |-> Day1 \o << "T", "0" >>, membershipEnd |-> Day2,
      totalFee |-> 11, cash |-> 1, online |-> 0,
      assignments |-> << [seatId |-> 1, shiftId |-> 2] >>,
      profileImageUrl |-> << >> ],
    [ id |-> 2, name |-> << "a" >>, email |-> << "a", "@", "a", ".", "a" >>,
      phone |-> << "1" >>, address |-> << >>, branchId |-> 0,
      membershipStart |-> Day1, membershipEnd |-> Day1,
      totalFee |-> 0, cash |-> 0, online |-> 1,
      assignments |-> << >>,
      profileImageUrl |-> << "u" >> ] }

(***************************************************************************)
(* State.                                                                  *)
(***************************************************************************)
VARIABLES
  \* which screen is mounted: "edit", "expired" or "left" (navigated away)
  mounted,
  \* requests and timers outstanding, oldest first, each with the values its
  \* continuation closes over
  net,
  \* the toast shown by the last step, "" when it showed none
  toast,
  \* ---- EditStudentForm
  studentId,            \* parseInt(id, 10): an id, or Null for NaN
  formData,
  allShifts, availableShifts, seats, branches, originalStudentData,
  loading, loadingSeats, loadingShifts, submitting,
  \* ---- ExpiredMemberships
  user,                 \* useAuth().user
  db,                   \* the gateway's record of each member, not client state
  students, emLoading, renewDialogOpen, selectedStudent,
  nameInput, phoneInput, addressInput, startDate, endDate,
  shiftOptions, seatOptions, branchOptions,
  selectedShift, selectedSeat, selectedBranch,
  totalFee, cash, online

commonVars == << mounted, net, toast >>
editVars == << studentId, formData, allShifts, availableShifts, seats, branches,
               originalStudentData, loading, loadingSeats, loadingShifts, submitting >>
emVars == << user, db, students, emLoading, renewDialogOpen, selectedStudent,
             nameInput, phoneInput, addressInput, startDate, endDate,
             shiftOptions, seatOptions, branchOptions,
             selectedShift, selectedSeat, selectedBranch, totalFee, cash, online >>
vars == << commonVars, editVars, emVars >>

\* useState<FormData>({...}) (the pass-through fields registrationNumber,
\* fatherName, aadharNumber, securityMoney and remark are read by no
\* condition and are left out)
InitialFormData ==
  [ name |-> << >>, email |-> << >>, phone |-> << >>, address |-> << >>,
    branchId |-> Null, membershipStart |-> << >>, membershipEnd |-> << >>,
    shiftIds |-> {}, seatId |-> Null,
    totalFee |-> << >>, cash |-> << >>, online |-> << >>,
    image |-> << >>, profileImageUrl |-> << >> ]

\* JavaScript truthiness of a number or null
Truthy(x) == x # Null /\ x # 0

Send(q, reqs) == q \o reqs
Remove(q, i) == Take(q, i - 1) \o Drop(q, i)


(***************************************************************************)
(* EditStudentForm: the two dependent-selection effects.                   *)
(***************************************************************************)
\* The commit of a render of the form with the new formData and allShifts:
\* the fetchSeats effect runs when formData.branchId changed, the
\* fetchAvailableShifts effect when formData.seatId or allShifts changed
\* (shiftsLoaded: setAllShifts was given a new array).  q is what is in
\* flight before the effects run.
Commit(newForm, newAllShifts, shiftsLoaded, q) ==
  LET branchChanged == newForm.branchId # formData.branchId
      seatChanged   == newForm.seatId # formData.seatId \/ shiftsLoaded
      fetchSeats    == branchChanged /\ Truthy(newForm.branchId)
      fetchShifts   == seatChanged /\ Truthy(newForm.seatId)
  IN  /\ formData' = newForm
      /\ allShifts' = newAllShifts
      /\ seats' = IF branchChanged /\ ~fetchSeats THEN {} ELSE seats
      /\ loadingSeats' = (fetchSeats \/ loadingSeats)
      /\ availableShifts' =
           IF seatChanged /\ ~fetchShifts THEN newAllShifts ELSE availableShifts
      /\ loadingShifts' = (fetchShifts \/ loadingShifts)
      /\ net' = Send(q,
                  (IF fetchSeats
                     THEN << [op |-> "getSeats", branchId |-> newForm.branchId] >>
                     ELSE << >>)
                  \o
                  (IF fetchShifts
                     THEN << [op |-> "getAvailableShifts", seatId |-> newForm.seatId] >>
                     ELSE << >>))
      /\ Len(net') <= MaxInflight

\* the form is on screen and takes input (lines 343-349)
FormShown == mounted = "edit" /\ ~loading /\ studentId # Null

\* setFormData of the initial load (lines 151-171)
Prefill(student) ==
  [ name |-> student.name, email |-> student.email, phone |-> student.phone,
    address |-> student.address,
    branchId |-> IF Truthy(student.branchId) THEN student.branchId ELSE Null,
    membershipStart |-> SplitT0(student.membershipStart),
    membershipEnd |-> SplitT0(student.membershipEnd),
    shiftIds |-> { student.assignments[k].shiftId : k \in 1..Len(student.assignments) },
    seatId |-> IF student.assignments # << >> /\ Truthy(student.assignments[1].seatId)
                 THEN student.assignments[1].seatId ELSE Null,
    totalFee |-> IF student.totalFee # 0 THEN toString(student.totalFee) ELSE << "0" >>,
    cash |-> IF student.cash # 0 THEN toString(student.cash) ELSE << "0" >>,
    online |-> IF student.online # 0 THEN toString(student.online) ELSE << "0" >>,
    image |-> << >>,
    profileImageUrl |-> student.profileImageUrl ]

\* fetchInitialData after its await: Promise.all resolved or rejected
FetchInitialDataResolve ==
  /\ mounted = "edit"
  /\ \E i \in 1..Len(net) :
       /\ net[i].op = "initial"
       /\ \/ \E student \in GatewayStudents :
               /\ student.id = net[i].id
               /\ originalStudentData' = << student >>
               /\ branches' = Branches
               /\ Commit(Prefill(student), Shifts, TRUE, Remove(net, i))
               /\ toast' = ""
          \/ /\ net' = Remove(net, i)
             /\ toast' = "Failed to load initial data."
             /\ UNCHANGED << formData, allShifts, availableShifts, seats, branches,
                             originalStudentData, loadingSeats, loadingShifts >>
  /\ loading' = FALSE
  /\ UNCHANGED << mounted, studentId, submitting, emVars >>

\* fetchSeats after its await, were the response for a branch that is no
\* longer the selected one dropped
FetchSeatsResolve_dropStale ==
  /\ mounted = "edit"
  /\ \E i \in 1..Len(net) :
       /\ net[i].op = "getSeats"
       /\ net' = Remove(net, i)
       /\ \/ /\ seats' = IF net[i].branchId = formData.branchId
                            THEN SeatsOfBranch(net[i].branchId) ELSE seats
             /\ toast' = ""
          \/ /\ toast' = "Failed to load seats"
             /\ UNCHANGED seats
  /\ loadingSeats' = FALSE
  /\ UNCHANGED << mounted, studentId, formData, allShifts, availableShifts, branches,
                  originalStudentData, loading, loadingShifts, submitting, emVars >>

\* fetchSeats after its await (lines 187-194)
FetchSeatsResolve ==
  /\ mounted = "edit"
  /\ \E i \in 1..Len(net) :
       /\ net[i].op = "getSeats"
       /\ net' = Remove(net, i)
       /\ \/ /\ seats' = SeatsOfBranch(net[i].branchId)
             /\ toast' = ""
          \/ /\ toast' = "Failed to load seats"
             /\ UNCHANGED seats
  /\ loadingSeats' = FALSE
  /\ UNCHANGED << mounted, studentId, formData, allShifts, availableShifts, branches,
                  originalStudentData, loading, loadingShifts, submitting, emVars >>

\* fetchAvailableShifts after its await (lines 207-214)
FetchAvailableShiftsResolve ==
  /\ mounted = "edit"
  /\ \E i \in 1..Len(net) :
       /\ net[i].op = "getAvailableShifts"
       /\ net' = Remove(net, i)
       /\ \/ /\ availableShifts' = AvailableShiftsOf(net[i].seatId)
             /\ toast' = ""
          \/ /\ toast' = "Failed to load available shifts"
             /\ UNCHANGED availableShifts
  /\ loadingShifts' = FALSE
  /\ UNCHANGED << mounted, studentId, formData, allShifts, seats, branches,
                  originalStudentData, loading, loadingSeats, submitting, emVars >>


(***************************************************************************)
(* EditStudentForm: what the render derives from the state.                *)
(***************************************************************************)
\* seatOptions (lines 316-319): the values offered by the seat selector
EditSeatOptions == {Null} \cup seats

\* isDisabled with the member's own assignments forgotten
ShiftIsDisabled_noOriginal(shift) ==
  formData.seatId # Null /\ shift \notin availableShifts

\* shiftOptions[..].isDisabled (lines 321-336)
ShiftIsDisabled(shift) ==
  LET isAvailable == shift \in availableShifts
      isOriginallyAssigned ==
        IF originalStudentData = << >> THEN FALSE
        ELSE \E k \in 1..Len(originalStudentData[1].assignments) :
               originalStudentData[1].assignments[k].shiftId = shift
      isSeatSelected == formData.seatId # Null
  IN  isSeatSelected /\ ~isAvailable /\ ~isOriginallyAssigned

\* the amount paid with the online payment forgotten
totalAmountPaid_cashOnly == OrZero(parseFloat(formData.cash))

\* totalAmountPaid and dueAmount (lines 338-341), in units of 1/Scale
totalAmountPaid == OrZero(parseFloat(formData.cash)) + OrZero(parseFloat(formData.online))
dueAmount == OrZero(parseFloat(formData.totalFee)) - totalAmountPaid

(***************************************************************************)
(* EditStudentForm: the handlers.                                          *)
(***************************************************************************)
\* handleChange (lines 222-225): no field it sets is watched by an effect
HandleChange(name, value) ==
  /\ FormShown
  /\ formData' = [formData EXCEPT ![name] = value]
  /\ toast' = ""
  /\ UNCHANGED << mounted, net, studentId, allShifts, availableShifts, seats, branches,
                  originalStudentData, loading, loadingSeats, loadingShifts, submitting,
                  emVars >>

\* handleSelectChange without the reset of the shifts
HandleSelectChange_keepShifts(name, value) ==
  /\ FormShown
  /\ Commit([formData EXCEPT ![name] = value], allShifts, FALSE, net)
  /\ toast' = ""
  /\ UNCHANGED << mounted, studentId, branches, originalStudentData, loading, submitting,
                  emVars >>

\* handleSelectChange (lines 227-232) and the effects of the render it causes;
\* value is the option's value, Null for the 'None' option
HandleSelectChange(name, value) ==
  /\ FormShown
  /\ LET picked  == [formData EXCEPT ![name] = value]
         newForm == IF name = "seatId" THEN [picked EXCEPT !.shiftIds = {}] ELSE picked
     IN  Commit(newForm, allShifts, FALSE, net)
  /\ toast' = ""
  /\ UNCHANGED << mounted, studentId, branches, originalStudentData, loading, submitting,
                  emVars >>

\* handleShiftSelectChange (lines 234-236); options is the new selection
HandleShiftSelectChange(options) ==
  /\ FormShown
  /\ formData' = [formData EXCEPT !.shiftIds = options]
  /\ toast' = ""
  /\ UNCHANGED << mounted, net, studentId, allShifts, availableShifts, seats, branches,
                  originalStudentData, loading, loadingSeats, loadingShifts, submitting,
                  emVars >>

\* what the multi-select can hand to handleShiftSelectChange (lines 444-456):
\* the selection shown with one enabled option added or one value removed,
\* or the selection cleared
ShiftSelections ==
  LET shown == formData.shiftIds \cap allShifts
  IN  { shown \cup {o} : o \in { x \in allShifts \ shown : ~ShiftIsDisabled(x) } }
        \cup { shown \ {o} : o \in shown }
        \cup { {} }

AllowedImageTypes == { "image/jpeg", "image/jpg", "image/png", "image/gif" }
MaxImageKB == 200

\* handleImageChange without the test of the size
HandleImageChange_noSizeLimit(files) ==
  /\ FormShown
  /\ IF files = << >>
       THEN toast' = "" /\ UNCHANGED formData
     ELSE IF files[1].type \notin AllowedImageTypes
       THEN toast' = "Only JPEG, JPG, PNG, and GIF images are allowed" /\ UNCHANGED formData
     ELSE /\ formData' = [formData EXCEPT !.image = << files[1] >>,
                                          !.profileImageUrl = << "b" >>]
          /\ toast' = ""
  /\ UNCHANGED << mounted, net, studentId, allShifts, availableShifts, seats, branches,
                  originalStudentData, loading, loadingSeats, loadingShifts, submitting,
                  emVars >>

\* handleImageChange (lines 238-251); files is e.target.files, empty when no
\* file was chosen (a File or null is a sequence of at most one record)
HandleImageChange(files) ==
  /\ FormShown
  /\ IF files = << >>
       THEN toast' = "" /\ UNCHANGED formData
     ELSE IF files[1].type \notin AllowedImageTypes
       THEN toast' = "Only JPEG, JPG, PNG, and GIF images are allowed" /\ UNCHANGED formData
     ELSE IF files[1].size > MaxImageKB * 1024
       THEN toast' = "Image size exceeds 200KB limit" /\ UNCHANGED formData
     ELSE /\ formData' = [formData EXCEPT !.image = << files[1] >>,
                                          !.profileImageUrl = << "b" >>]
          /\ toast' = ""
  /\ UNCHANGED << mounted, net, studentId, allShifts, availableShifts, seats, branches,
                  originalStudentData, loading, loadingSeats, loadingShifts, submitting,
                  emVars >>

\* [^\s@]
EmailChar(c) == ~IsSpace(c) /\ c # "@"

\* validateEmail (line 253): /^[^\s@]+@[^\s@]+\.[^\s@]+$/
validateEmail(email) ==
  \E i, j \in 1..Len(email) :
    /\ 1 < i /\ i + 1 < j /\ j < Len(email)
    /\ email[i] = "@" /\ email[j] = "."
    /\ \A k \in 1..Len(email) : k \notin {i, j} => EmailChar(email[k])

\* the required-field test with the address forgotten
RequiredMissing_noAddress(f) ==
  \/ Trim(f.name) = << >> \/ Trim(f.phone) = << >>
  \/ ~Truthy(f.branchId) \/ f.membershipStart = << >> \/ f.membershipEnd = << >>

\* the first test of handleSubmit (line 256)
RequiredMissing(f) ==
  \/ Trim(f.name) = << >> \/ Trim(f.phone) = << >> \/ Trim(f.address) = << >>
  \/ ~Truthy(f.branchId) \/ f.membershipStart = << >> \/ f.membershipEnd = << >>

\* the email test without the trim
EmailInvalid_untrimmed(f) == f.email # << >> /\ ~validateEmail(f.email)

\* the second test of handleSubmit (line 260)
EmailInvalid(f) == Trim(f.email) # << >> /\ ~validateEmail(f.email)

\* the date test letting equal dates through
DatesInvalid_equalAllowed(f) ==
  LET a == DateValue(f.membershipStart)
      b == DateValue(f.membershipEnd)
  IN  ~a.nan /\ ~b.nan /\ a.v > b.v

\* the third test of handleSubmit (line 264)
DatesInvalid(f) == Geq(DateValue(f.membershipStart), DateValue(f.membershipEnd))

\* the payload of updateStudent (lines 279-303)
Payload(f, imageUrl) ==
  LET totalFeeValue == OrZero(parseFloat(f.totalFee))
      cashValue     == OrZero(parseFloat(f.cash))
      onlineValue   == OrZero(parseFloat(f.online))
  IN  [ name |-> f.name, email |-> f.email, phone |-> f.phone, address |-> f.address,
        branchId |-> f.branchId,
        membershipStart |-> f.membershipStart, membershipEnd |-> f.membershipEnd,
        totalFee |-> totalFeeValue, amountPaid |-> cashValue + onlineValue,
        shiftIds |-> f.shiftIds, seatId |-> f.seatId,
        cash |-> cashValue, online |-> onlineValue,
        profileImageUrl |-> imageUrl ]

\* handleSubmit up to its first await (lines 255-277, 305)
HandleSubmit ==
  /\ FormShown
  /\ ~submitting
  /\ IF RequiredMissing(formData)
       THEN /\ toast' = "Name, Phone, Address, Branch, and Membership Dates are required"
            /\ UNCHANGED << net, submitting >>
     ELSE IF EmailInvalid(formData)
       THEN /\ toast' = "Please enter a valid email address or leave it empty"
            /\ UNCHANGED << net, submitting >>
     ELSE IF DatesInvalid(formData)
       THEN /\ toast' = "Membership End date must be after Membership Start date"
            /\ UNCHANGED << net, submitting >>
     ELSE /\ submitting' = TRUE
          /\ toast' = ""
          /\ Len(net) < MaxInflight
          /\ net' = Send(net,
                      IF formData.image # << >>
                        THEN << [op |-> "uploadImage", image |-> formData.image[1],
                                 form |-> formData] >>
                        ELSE << [op |-> "updateStudent", id |-> studentId,
                                 payload |-> Payload(formData, formData.profileImageUrl)] >>)
  /\ UNCHANGED << mounted, studentId, formData, allShifts, availableShifts, seats, branches,
                  originalStudentData, loading, loadingSeats, loadingShifts, emVars >>

\* the same continuation without the finally block
UploadImageResolve_noFinally ==
  /\ \E i \in 1..Len(net) :
       /\ net[i].op = "uploadImage"
       /\ \/ /\ \E imageUrl \in { << >>, << "u" >> } :
                  net' = Send(Remove(net, i),
                              << [op |-> "updateStudent", id |-> studentId,
                                  payload |-> Payload(net[i].form, imageUrl)] >>)
             /\ toast' = ""
          \/ /\ net' = Remove(net, i)
             /\ toast' = "Failed to update student"
  /\ UNCHANGED << mounted, studentId, formData, allShifts, availableShifts, seats, branches,
                  originalStudentData, loading, loadingSeats, loadingShifts, submitting,
                  emVars >>

\* handleSubmit after await api.uploadImage (lines 275-305, 308-313); the
\* continuation runs whether or not the form is still mounted
UploadImageResolve ==
  /\ \E i \in 1..Len(net) :
       /\ net[i].op = "uploadImage"
       /\ \/ /\ \E imageUrl \in { << >>, << "u" >> } :
                  net' = Send(Remove(net, i),
                              << [op |-> "updateStudent", id |-> studentId,
                                  payload |-> Payload(net[i].form, imageUrl)] >>)
             /\ toast' = ""
             /\ UNCHANGED submitting
          \/ /\ net' = Remove(net, i)
             /\ toast' = "Failed to update student"
             /\ submitting' = (mounted # "edit" /\ submitting)
  /\ UNCHANGED << mounted, studentId, formData, allShifts, availableShifts, seats, branches,
                  originalStudentData, loading, loadingSeats, loadingShifts, emVars >>

\* the same continuation leaving the form on a rejection as well
UpdateStudentResolve_leaveOnFailure ==
  /\ \E i \in 1..Len(net) :
       /\ net[i].op = "updateStudent"
       /\ net' = Remove(net, i)
       /\ \/ toast' = "Student updated successfully"
          \/ toast' = "Failed to update student"
       /\ mounted' = "left"
  /\ submitting' = (mounted # "edit" /\ submitting)
  /\ UNCHANGED << studentId, formData, allShifts, availableShifts, seats, branches,
                  originalStudentData, loading, loadingSeats, loadingShifts, emVars >>

\* handleSubmit after await api.updateStudent (lines 305-313)
UpdateStudentResolve ==
  /\ \E i \in 1..Len(net) :
       /\ net[i].op = "updateStudent"
       /\ net' = Remove(net, i)
       /\ \/ /\ toast' = "Student updated successfully"
             /\ mounted' = "left"
          \/ /\ toast' = "Failed to update student"
             /\ UNCHANGED mounted
  /\ submitting' = (mounted # "edit" /\ submitting)
  /\ UNCHANGED << studentId, formData, allShifts, availableShifts, seats, branches,
                  originalStudentData, loading, loadingSeats, loadingShifts, emVars >>


\* navigate(-1) of the Back button (line 355) and of Cancel (line 499,
\* disabled while submitting): the form unmounts
NavigateBack ==
  /\ FormShown
  /\ mounted' = "left"
  /\ toast' = ""
  /\ UNCHANGED << net, editVars, emVars >>

\* a fetch of an effect resolving after its screen unmounted: React drops
\* the state updates of an unmounted component
ResolveUnmounted ==
  /\ mounted = "left"
  /\ \E i \in 1..Len(net) :
       /\ net[i].op \in { "getSeats", "getAvailableShifts", "loadExpired" }
       /\ net' = Remove(net, i)
  /\ toast' = ""
  /\ UNCHANGED << mounted, editVars, emVars >>

(***************************************************************************)
(* EditStudentForm: mounting.                                              *)
(***************************************************************************)
\* the ids a route can carry: those of the members, or none that parses
RouteIds == { s.id : s \in GatewayStudents } \cup { Null }

\* parseInt(str, 10): skip leading white space, then read a sign and the
\* longest run of digits; NaN when there is no digit
parseInt(str) ==
  LET s    == TrimStart(str)
      neg  == s # << >> /\ Head(s) = "-"
      sgn  == s # << >> /\ Head(s) \in {"-", "+"}
      body == IF sgn THEN Tail(s) ELSE s
      n    == DigitRun(body)
  IN  IF n = 0 THEN NaN
      ELSE Num(IF neg THEN 0 - IntOf(Take(body, n)) ELSE IntOf(Take(body, n)))

\* studentId (line 130) for the route parameter id, the empty text standing
\* for an absent one as well; Null is NaN
ParseRouteId(id) ==
  IF id = << >> THEN Null
  ELSE LET n == parseInt(id) IN IF n.nan THEN Null ELSE n.v

\* the mount without the guard on the id
MountEdit_noGuard(id) ==
  /\ studentId = id
  /\ formData = InitialFormData
  /\ allShifts = {} /\ availableShifts = {} /\ seats = {} /\ branches = {}
  /\ originalStudentData = << >>
  /\ loadingSeats = FALSE /\ loadingShifts = FALSE /\ submitting = FALSE
  /\ loading = TRUE /\ toast = "" /\ net = << [op |-> "initial", id |-> id] >>

\* the component after its first render and the first run of its effects
\* (lines 97-138, 195-197, 215-217)
MountEdit(id) ==
  /\ studentId = id
  /\ formData = InitialFormData
  /\ allShifts = {} /\ availableShifts = {} /\ seats = {} /\ branches = {}
  /\ originalStudentData = << >>
  /\ loadingSeats = FALSE /\ loadingShifts = FALSE /\ submitting = FALSE
  /\ IF id = Null
       THEN loading = FALSE /\ toast = "Invalid student ID." /\ net = << >>
       ELSE loading = TRUE /\ toast = "" /\ net = << [op |-> "initial", id |-> id] >>


\* the cells of EditStudentForm while the other screen is mounted
EditUnmounted ==
  /\ studentId = Null
  /\ formData = InitialFormData
  /\ allShifts = {} /\ availableShifts = {} /\ seats = {} /\ branches = {}
  /\ originalStudentData = << >>
  /\ loading = TRUE
  /\ loadingSeats = FALSE /\ loadingShifts = FALSE /\ submitting = FALSE


(***************************************************************************)
(* ExpiredMemberships: the gateway's data for it.                          *)
(***************************************************************************)
MemberIds == { s.id : s \in GatewayStudents }

\* getExpiredMemberships(): the members whose membership has expired
ExpiredIn(d) == { m \in MemberIds : d[m] = "expired" }

\* getSeats({shiftId}): every seat, each with the member holding it in that
\* shift (Null: nobody).  Member 3 is a member who is not expired.
SeatHolder(shift, seat) ==
  IF shift = 2 /\ seat = 1 THEN 1
  ELSE IF shift = 1 /\ seat = 1 THEN 3
  ELSE Null

\* new Date() and addMonths(new Date(), 1) (lines 89-90, 158-159)
Today == Day1
NextMonth == Day2

\* useAuth().user: nobody, an admin, or a role with or without a permissions
\* list
Users ==
  { << >>,
    << [role |-> "admin", hasPermissions |-> FALSE, permissions |-> {}] >>,
    << [role |-> "staff", hasPermissions |-> TRUE, permissions |-> {"manage_students"}] >>,
    << [role |-> "staff", hasPermissions |-> TRUE, permissions |-> {"view"}] >>,
    << [role |-> "staff", hasPermissions |-> FALSE, permissions |-> {}] >> }

\* hasPermissions (lines 65-67)
hasPermissions(u) == u # << >> /\ u[1].hasPermissions

\* the Renew button rendered for whoever is signed in
CanRenew_anyUser(u) == u # << >>

\* the Renew button is rendered (line 306)
CanRenew(u) == u # << >> /\ u[1].role = "admin"

\* the delete button is rendered (lines 311-312)
CanDelete(u) ==
  /\ u # << >>
  /\ \/ u[1].role = "admin"
     \/ hasPermissions(u) /\ "manage_students" \in u[1].permissions

\* the table of rows is on screen and reachable: no user means /login
\* (lines 251-254), loading hides the table (line 273), the open modal
\* dialog covers it (line 346)
TableShown == mounted = "expired" /\ ~emLoading /\ ~renewDialogOpen

\* the renewal dialog is on screen
DialogShown == mounted = "expired" /\ renewDialogOpen

\* the component after its first render and the first run of its effects
\* (lines 75-126)
MountExpired(u) ==
  /\ user = u
  /\ net = << [op |-> "loadExpired"] >>
  /\ toast = ""
  /\ db = [m \in MemberIds |-> "expired"]
  /\ students = {}
  /\ emLoading = TRUE
  /\ renewDialogOpen = FALSE
  /\ selectedStudent = << >>
  /\ nameInput = << >> /\ phoneInput = << >> /\ addressInput = << >>
  /\ startDate = << Today >> /\ endDate = << NextMonth >>
  /\ shiftOptions = {} /\ seatOptions = {} /\ branchOptions = {}
  /\ selectedShift = << >> /\ selectedSeat = << >> /\ selectedBranch = << >>
  /\ totalFee = << >> /\ cash = << >> /\ online = << >>

\* the cells of ExpiredMemberships while the other screen is mounted
ExpiredUnmounted ==
  /\ user = << >>
  /\ db = [m \in MemberIds |-> "expired"]
  /\ students = {}
  /\ emLoading = TRUE
  /\ renewDialogOpen = FALSE
  /\ selectedStudent = << >>
  /\ nameInput = << >> /\ phoneInput = << >> /\ addressInput = << >>
  /\ startDate = << Today >> /\ endDate = << NextMonth >>
  /\ shiftOptions = {} /\ seatOptions = {} /\ branchOptions = {}
  /\ selectedShift = << >> /\ selectedSeat = << >> /\ selectedBranch = << >>
  /\ totalFee = << >> /\ cash = << >> /\ online = << >>

emInputs == << nameInput, phoneInput, addressInput, startDate, endDate,
               selectedBranch, totalFee, cash, online >>

\* the first effect after its await (lines 110-124)
LoadExpiredResolve ==
  /\ mounted = "expired"
  /\ \E i \in 1..Len(net) :
       /\ net[i].op = "loadExpired"
       /\ net' = Remove(net, i)
  /\ \/ /\ students' = ExpiredIn(db)
        /\ shiftOptions' = Shifts
        /\ branchOptions' = Branches
        /\ toast' = ""
     \/ /\ toast' = "Failed to fetch expired memberships."
        /\ UNCHANGED << students, shiftOptions, branchOptions >>
  /\ emLoading' = FALSE
  /\ UNCHANGED << mounted, editVars, user, db, renewDialogOpen, selectedStudent, emInputs,
                  seatOptions, selectedShift, selectedSeat >>

\* the request of the fetchSeatsForShift effect (lines 128-149) as it runs
\* in a render with the given selectedShift and selectedStudent; it closes
\* over that render's selectedSeat
SeatsForShiftReqs(shift, student, seat) ==
  IF shift # << >> /\ student # << >>
    THEN << [op |-> "getSeatsForShift", shiftId |-> shift[1].value,
             studentId |-> student[1].id, selectedSeat |-> seat] >>
    ELSE << >>

\* handleRenewClick up to its await (lines 151-154)
HandleRenewClick(student) ==
  /\ TableShown
  /\ CanRenew(user)
  /\ student \in students
  /\ Len(net) < MaxInflight
  /\ emLoading' = TRUE
  /\ net' = Send(net, << [op |-> "getStudent", id |-> student] >>)
  /\ toast' = ""
  /\ UNCHANGED << mounted, editVars, user, db, students, renewDialogOpen, selectedStudent,
                  emInputs, shiftOptions, seatOptions, branchOptions,
                  selectedShift, selectedSeat >>

Money(n) == IF n # 0 THEN toString(n) ELSE << "0" >>

\* handleRenewClick after its await (lines 155-191), with the effect of the
\* render that follows: selectedStudent and selectedShift are new objects
GetStudentResolve ==
  /\ mounted = "expired"
  /\ \E i \in 1..Len(net) :
       /\ net[i].op = "getStudent"
       /\ \/ \E full \in GatewayStudents :
               LET has   == full.assignments # << >>
                   shift == IF has
                              THEN << [value |-> full.assignments[1].shiftId,
                                       ref |-> "prefill"] >>
                              ELSE << >>
                   timer == [op |-> "timer",
                             seat |-> IF has THEN << full.assignments[1].seatId >>
                                             ELSE << >>]
               IN  /\ full.id = net[i].id
                   /\ db[full.id] # "deleted"
                   /\ selectedStudent' = << full >>
                   /\ startDate' = << Today >>
                   /\ endDate' = << NextMonth >>
                   /\ nameInput' = full.name
                   /\ phoneInput' = full.phone
                   /\ addressInput' = full.address
                   /\ selectedBranch' = IF Truthy(full.branchId) THEN << full.branchId >>
                                                                 ELSE << >>
                   /\ selectedShift' = shift
                   /\ totalFee' = Money(full.totalFee)
                   /\ cash' = Money(full.cash)
                   /\ online' = Money(full.online)
                   /\ renewDialogOpen' = TRUE
                   /\ net' = Send(Remove(net, i),
                                  << timer >> \o SeatsForShiftReqs(shift, << full >>,
                                                                   selectedSeat))
                   /\ Len(net') <= MaxInflight
                   /\ toast' = ""
          \/ /\ net' = Remove(net, i)
             /\ toast' = "Failed to load student details for renewal."
             /\ UNCHANGED << selectedStudent, emInputs, selectedShift, renewDialogOpen >>
  /\ emLoading' = FALSE
  /\ UNCHANGED << mounted, editVars, user, db, students, shiftOptions, seatOptions,
                  branchOptions, selectedSeat >>

\* the setTimeout callback of handleRenewClick (lines 175-177)
SeatPrefillTimer ==
  /\ mounted = "expired"
  /\ \E i \in 1..Len(net) :
       /\ net[i].op = "timer"
       /\ net' = Remove(net, i)
       /\ selectedSeat' = net[i].seat
  /\ toast' = ""
  /\ UNCHANGED << mounted, editVars, user, db, students, emLoading, renewDialogOpen,
                  selectedStudent, emInputs, shiftOptions, seatOptions, branchOptions,
                  selectedShift >>

\* fetchSeatsForShift after its await (lines 133-145)
FetchSeatsForShiftResolve ==
  /\ mounted = "expired"
  /\ \E i \in 1..Len(net) :
       /\ net[i].op = "getSeatsForShift"
       /\ net' = Remove(net, i)
       /\ \/ LET availableSeats ==
                   { seat \in Seats :
                       \/ ~Truthy(SeatHolder(net[i].shiftId, seat))
                       \/ SeatHolder(net[i].shiftId, seat) = net[i].studentId }
                 closed == net[i].selectedSeat
             IN  /\ seatOptions' = {Null} \cup availableSeats
                 /\ selectedSeat' =
                      IF closed # << >> /\ closed[1] \notin availableSeats /\ closed[1] # Null
                        THEN << >> ELSE selectedSeat
                 /\ toast' = ""
          \/ /\ toast' = "Failed to fetch seats"
             /\ UNCHANGED << seatOptions, selectedSeat >>
  /\ UNCHANGED << mounted, editVars, user, db, students, emLoading, renewDialogOpen,
                  selectedStudent, emInputs, shiftOptions, branchOptions, selectedShift >>


(***************************************************************************)
(* ExpiredMemberships: the renewal dialog.                                 *)
(***************************************************************************)
emRest == << mounted, net, editVars, user, db, students, emLoading, renewDialogOpen,
             selectedStudent, shiftOptions, seatOptions, branchOptions,
             selectedShift, selectedSeat >>

\* onChange of the Name, Phone and Address inputs (lines 359, 394, 421)
SetNameInput(value) ==
  /\ DialogShown /\ nameInput' = value /\ toast' = ""
  /\ UNCHANGED << emRest, phoneInput, addressInput, startDate, endDate, selectedBranch,
                  totalFee, cash, online >>

SetPhoneInput(value) ==
  /\ DialogShown /\ phoneInput' = value /\ toast' = ""
  /\ UNCHANGED << emRest, nameInput, addressInput, startDate, endDate, selectedBranch,
                  totalFee, cash, online >>

SetAddressInput(value) ==
  /\ DialogShown /\ addressInput' = value /\ toast' = ""
  /\ UNCHANGED << emRest, nameInput, phoneInput, startDate, endDate, selectedBranch,
                  totalFee, cash, online >>

\* onSelect of the two calendars (lines 400, 404): a day, or nothing when the
\* selected day is clicked again
SetStartDate(value) ==
  /\ DialogShown /\ startDate' = value /\ toast' = ""
  /\ UNCHANGED << emRest, nameInput, phoneInput, addressInput, endDate, selectedBranch,
                  totalFee, cash, online >>

SetEndDate(value) ==
  /\ DialogShown /\ endDate' = value /\ toast' = ""
  /\ UNCHANGED << emRest, nameInput, phoneInput, addressInput, startDate, selectedBranch,
                  totalFee, cash, online >>

\* onChange of the Branch select (line 429)
SetSelectedBranch(value) ==
  /\ DialogShown /\ value \in branchOptions
  /\ selectedBranch' = << value >> /\ toast' = ""
  /\ UNCHANGED << emRest, nameInput, phoneInput, addressInput, startDate, endDate,
                  totalFee, cash, online >>

\* onChange of the Total Fee, Cash and Online inputs (lines 458, 469, 480)
SetTotalFee(value) ==
  /\ DialogShown /\ totalFee' = value /\ toast' = ""
  /\ UNCHANGED << emRest, nameInput, phoneInput, addressInput, startDate, endDate,
                  selectedBranch, cash, online >>

SetCash(value) ==
  /\ DialogShown /\ cash' = value /\ toast' = ""
  /\ UNCHANGED << emRest, nameInput, phoneInput, addressInput, startDate, endDate,
                  selectedBranch, totalFee, online >>

SetOnline(value) ==
  /\ DialogShown /\ online' = value /\ toast' = ""
  /\ UNCHANGED << emRest, nameInput, phoneInput, addressInput, startDate, endDate,
                  selectedBranch, totalFee, cash >>

\* onChange of the Shift select (line 438) and the effect of the render it
\* causes: the option objects of shiftOptions are the same from render to
\* render, so the effect runs unless this very option was already selected
SetSelectedShift(value) ==
  /\ DialogShown /\ value \in shiftOptions
  /\ LET option == << [value |-> value, ref |-> "option"] >>
     IN  /\ selectedShift' = option
         /\ net' = Send(net, IF option # selectedShift
                               THEN SeatsForShiftReqs(option, selectedStudent, selectedSeat)
                               ELSE << >>)
  /\ Len(net') <= MaxInflight
  /\ toast' = ""
  /\ UNCHANGED << mounted, editVars, user, db, students, emLoading, renewDialogOpen,
                  selectedStudent, emInputs, shiftOptions, seatOptions, branchOptions,
                  selectedSeat >>

\* onChange of the Seat select (lines 444-450), enabled once a shift is chosen
SetSelectedSeat(value) ==
  /\ DialogShown /\ selectedShift # << >> /\ value \in seatOptions
  /\ selectedSeat' = << value >>
  /\ toast' = ""
  /\ UNCHANGED << mounted, net, editVars, user, db, students, emLoading, renewDialogOpen,
                  selectedStudent, emInputs, shiftOptions, seatOptions, branchOptions,
                  selectedShift >>

\* Cancel, Escape or a click outside the dialog (lines 346, 525)
CloseRenewDialog ==
  /\ DialogShown
  /\ renewDialogOpen' = FALSE
  /\ toast' = ""
  /\ UNCHANGED << mounted, net, editVars, user, db, students, emLoading,
                  selectedStudent, emInputs, shiftOptions, seatOptions, branchOptions,
                  selectedShift, selectedSeat >>

\* paid and due (lines 246-249), in units of 1/Scale
paid == OrZero(parseFloat(cash)) + OrZero(parseFloat(online))
due == OrZero(parseFloat(totalFee)) - paid

\* the condition of lines 196-200 with the fee forgotten
RenewInvalid_noFee ==
  \/ selectedStudent = << >> \/ startDate = << >> \/ endDate = << >>
  \/ Trim(nameInput) = << >> \/ Trim(phoneInput) = << >> \/ Trim(addressInput) = << >>
  \/ selectedShift = << >> \/ ~Truthy(selectedShift[1].value)
  \/ selectedBranch = << >> \/ ~Truthy(selectedBranch[1])

\* the condition of lines 196-200
RenewInvalid ==
  \/ selectedStudent = << >> \/ startDate = << >> \/ endDate = << >>
  \/ Trim(nameInput) = << >> \/ Trim(phoneInput) = << >> \/ Trim(addressInput) = << >>
  \/ selectedShift = << >> \/ ~Truthy(selectedShift[1].value)
  \/ totalFee = << >>
  \/ selectedBranch = << >> \/ ~Truthy(selectedBranch[1])

\* the payload of renewStudent (lines 207-225); seatId is << >> for undefined
RenewPayload ==
  [ name |-> nameInput, address |-> addressInput, phone |-> phoneInput,
    membershipStart |-> startDate[1], membershipEnd |-> endDate[1],
    branchId |-> selectedBranch[1],
    shiftIds |-> << selectedShift[1].value >>,
    seatId |-> selectedSeat,
    totalFee |-> parseFloat(totalFee),
    cash |-> OrZero(parseFloat(cash)), online |-> OrZero(parseFloat(online)) ]

\* handleRenewSubmit up to its await (lines 194-207)
HandleRenewSubmit ==
  /\ DialogShown
  /\ IF RenewInvalid
       THEN /\ toast' = "Please ensure Name, Phone, Address, Branch, Shift, and Fee are filled correctly."
            /\ UNCHANGED net
       ELSE /\ Len(net) < MaxInflight
            /\ net' = Send(net, << [op |-> "renewStudent", id |-> selectedStudent[1].id,
                                    payload |-> RenewPayload] >>)
            /\ toast' = ""
  /\ UNCHANGED << mounted, editVars, user, db, students, emLoading, renewDialogOpen,
                  selectedStudent, emInputs, shiftOptions, seatOptions, branchOptions,
                  selectedShift, selectedSeat >>

\* handleRenewSubmit after await api.renewStudent (lines 227-236)
RenewStudentResolve ==
  /\ mounted = "expired"
  /\ \E i \in 1..Len(net) :
       /\ net[i].op = "renewStudent"
       /\ \/ /\ db[net[i].id] # "deleted"
             /\ db' = [db EXCEPT ![net[i].id] = "active"]
             /\ toast' = "Membership renewed"
             /\ renewDialogOpen' = FALSE
             /\ net' = Send(Remove(net, i), << [op |-> "refresh"] >>)
          \/ /\ net' = Remove(net, i)
             /\ toast' = "Failed to renew membership"
             /\ UNCHANGED << db, renewDialogOpen >>
  /\ UNCHANGED << mounted, editVars, user, students, emLoading, selectedStudent, emInputs,
                  shiftOptions, seatOptions, branchOptions, selectedShift, selectedSeat >>

\* handleRenewSubmit after await api.getExpiredMemberships (lines 230-236)
RefreshResolve ==
  /\ mounted = "expired"
  /\ \E i \in 1..Len(net) :
       /\ net[i].op = "refresh"
       /\ net' = Remove(net, i)
  /\ \/ /\ students' = ExpiredIn(db)
        /\ toast' = ""
     \/ /\ toast' = "Failed to renew membership"
        /\ UNCHANGED students
  /\ UNCHANGED << mounted, editVars, user, db, emLoading, renewDialogOpen, selectedStudent,
                  emInputs, shiftOptions, seatOptions, branchOptions,
                  selectedShift, selectedSeat >>

(***************************************************************************)
(* ExpiredMemberships: deleting a row.                                     *)
(***************************************************************************)
\* onClick of the delete button up to its await (lines 315-318); confirmed
\* is the answer to window.confirm.  The handler closes over the students
\* of the render that created it.
HandleDeleteClick(student, confirmed) ==
  /\ TableShown
  /\ CanDelete(user)
  /\ student \in students
  /\ IF confirmed
       THEN /\ Len(net) < MaxInflight
            /\ net' = Send(net, << [op |-> "deleteStudent", id |-> student,
                                    students |-> students] >>)
       ELSE UNCHANGED net
  /\ toast' = ""
  /\ UNCHANGED << mounted, editVars, emVars >>

\* the same handler after its await (lines 319-323)
DeleteStudentResolve ==
  /\ mounted = "expired"
  /\ \E i \in 1..Len(net) :
       /\ net[i].op = "deleteStudent"
       /\ net' = Remove(net, i)
       /\ \/ /\ db[net[i].id] # "deleted"
             /\ db' = [db EXCEPT ![net[i].id] = "deleted"]
             /\ students' = { s \in net[i].students : s # net[i].id }
             /\ toast' = "Student deleted successfully."
          \/ /\ toast' = "Failed to delete student."
             /\ UNCHANGED << db, students >>
  /\ UNCHANGED << mounted, editVars, user, emLoading, renewDialogOpen, selectedStudent,
                  emInputs, shiftOptions, seatOptions, branchOptions,
                  selectedShift, selectedSeat >>


(***************************************************************************)
(* What the user can type and pick.                                        *)
(***************************************************************************)
\* the keys typed into a number field
FeeChars == { "1", "-", ".", "a" }
NumberTexts == SeqsUpTo(FeeChars, MaxLen)

\* a valid floating-point number of HTML: [-] digits [. digits] or [-] . digits
IsValidFloat(s) ==
  LET body == IF s # << >> /\ Head(s) = "-" THEN Tail(s) ELSE s
      ni   == DigitRun(body)
      rest == Drop(body, ni)
  IN  \/ ni > 0 /\ rest = << >>
      \/ /\ rest # << >> /\ Head(rest) = "."
         /\ Len(rest) > 1 /\ DigitRun(Tail(rest)) = Len(rest) - 1

\* e.target.value of an <input type="number"> holding the text typed: the
\* text when it is a valid number, the empty string otherwise
NumberInputValue(typed) == IF IsValidFloat(typed) THEN typed ELSE << >>

\* the values a number field can hand to its onChange
NumberInputs == { NumberInputValue(typed) : typed \in NumberTexts }

TextInputs == { << >>, << " " >>, << "a" >> }
EmailInputs == { << >>, << " " >>, << "a", "@", "a", ".", "a" >>, << "a", "@", "a" >>,
                 << " ", "a", "@", "a", ".", "a" >> }
\* e.target.value of an <input type="date">: a date or the empty string
DateInputs == { << >>, Day1, Day2 }
\* e.target.files of the file input
FileInputs == { << >>,
                << [type |-> "image/png", size |-> 1024] >>,
                << [type |-> "image/png", size |-> 200 * 1024 + 1] >>,
                << [type |-> "application/pdf", size |-> 1024] >> }

(***************************************************************************)
(* Specifications.                                                         *)
(***************************************************************************)
InitEdit ==
  /\ mounted = "edit"
  /\ \E id \in RouteIds : MountEdit(id)
  /\ ExpiredUnmounted

InitExpired ==
  /\ \E u \in Users :
       /\ MountExpired(u)
       /\ mounted = IF u = << >> THEN "left" ELSE "expired"
  /\ EditUnmounted

\* ---- the dependent selections of the edit form
PickBranch == \E b \in branches : HandleSelectChange("branchId", b)
PickSeat == \E option \in EditSeatOptions : HandleSelectChange("seatId", option)
PickShifts == \E options \in ShiftSelections : HandleShiftSelectChange(options)

NextEdit ==
  \/ FetchInitialDataResolve
  \/ FetchSeatsResolve
  \/ FetchAvailableShiftsResolve
  \/ PickBranch
  \/ PickSeat
  \/ PickShifts
  \/ HandleSubmit
  \/ UpdateStudentResolve
  \/ NavigateBack
  \/ ResolveUnmounted

SpecEdit == InitEdit /\ [][NextEdit]_vars

\* ---- the validated fields of the edit form and its submit
ChangeText ==
  \E name \in { "name", "phone", "address" }, value \in TextInputs : HandleChange(name, value)
ChangeEmail == \E value \in EmailInputs : HandleChange("email", value)
ChangeDate ==
  \E name \in { "membershipStart", "membershipEnd" }, value \in DateInputs :
    HandleChange(name, value)
ChooseImage == \E files \in FileInputs : HandleImageChange(files)

NextValid ==
  \/ FetchInitialDataResolve
  \/ FetchSeatsResolve
  \/ FetchAvailableShiftsResolve
  \/ ChangeText
  \/ ChangeDate
  \/ ChooseImage
  \/ HandleSubmit
  \/ UploadImageResolve
  \/ UpdateStudentResolve
  \/ ResolveUnmounted

SpecValid == InitEdit /\ [][NextValid]_vars

NextEmail ==
  \/ FetchInitialDataResolve
  \/ FetchSeatsResolve
  \/ FetchAvailableShiftsResolve
  \/ ChangeEmail
  \/ ChangeDate
  \/ ChooseImage
  \/ HandleSubmit
  \/ UploadImageResolve
  \/ UpdateStudentResolve
  \/ ResolveUnmounted

SpecEmail == InitEdit /\ [][NextEmail]_vars

\* ---- the fee fields of both screens
ChangeFee ==
  \E name \in { "totalFee", "cash", "online" }, value \in NumberInputs :
    HandleChange(name, value)

RenewClick == \E student \in MemberIds : HandleRenewClick(student)

SetFee ==
  \E value \in NumberInputs :
    \/ SetTotalFee(value)
    \/ SetCash(value)
    \/ SetOnline(value)

InitFee == InitEdit \/ InitExpired

NextFee ==
  \/ FetchInitialDataResolve
  \/ FetchSeatsResolve
  \/ FetchAvailableShiftsResolve
  \/ ChangeFee
  \/ LoadExpiredResolve
  \/ RenewClick
  \/ GetStudentResolve
  \/ SeatPrefillTimer
  \/ FetchSeatsForShiftResolve
  \/ SetFee
  \/ ResolveUnmounted

SpecFee == InitFee /\ [][NextFee]_vars

\* ---- the required fields of the renewal dialog and its submit
\* what the calendars hand to onSelect: a day, or nothing
DayInputs == { << >> }
\* e.target.value of the Total Fee input
TotalFeeInputs == { << >> }

\* e.target.value of the Name, Phone and Address inputs
DialogTexts == { << " " >> }

SetText ==
  \E value \in DialogTexts :
    \/ SetNameInput(value)
    \/ SetPhoneInput(value)
    \/ SetAddressInput(value)
SetDay ==
  \E value \in DayInputs :
    \/ SetStartDate(value)
    \/ SetEndDate(value)
PickTotalFee == \E value \in TotalFeeInputs : SetTotalFee(value)
PickBranchOption == \E value \in branchOptions : SetSelectedBranch(value)
PickShiftOption == \E value \in shiftOptions : SetSelectedShift(value)

NextRenewValid ==
  \/ LoadExpiredResolve
  \/ RenewClick
  \/ GetStudentResolve
  \/ SeatPrefillTimer
  \/ FetchSeatsForShiftResolve
  \/ SetText
  \/ SetDay
  \/ PickTotalFee
  \/ HandleRenewSubmit
  \/ RenewStudentResolve
  \/ RefreshResolve
  \/ ResolveUnmounted

SpecRenewValid == InitExpired /\ [][NextRenewValid]_vars

\* ---- the shift and the seat of the renewal dialog
PickSeatOption == \E value \in seatOptions : SetSelectedSeat(value)

NextRenew ==
  \/ LoadExpiredResolve
  \/ RenewClick
  \/ GetStudentResolve
  \/ SeatPrefillTimer
  \/ FetchSeatsForShiftResolve
  \/ PickShiftOption
  \/ PickSeatOption
  \/ CloseRenewDialog
  \/ ResolveUnmounted

SpecRenew == InitExpired /\ [][NextRenew]_vars

\* ---- the rows of the expired-memberships list and their delete buttons
DeleteClick ==
  \E student \in MemberIds, confirmed \in BOOLEAN : HandleDeleteClick(student, confirmed)

NextList ==
  \/ LoadExpiredResolve
  \/ DeleteClick
  \/ DeleteStudentResolve
  \/ ResolveUnmounted

SpecList == InitExpired /\ [][NextList]_vars

\* ---- a submit of either screen and the gateway's answer to it
NextReject ==
  \/ FetchInitialDataResolve
  \/ FetchSeatsResolve
  \/ FetchAvailableShiftsResolve
  \/ ChangeEmail
  \/ ChooseImage
  \/ HandleSubmit
  \/ UploadImageResolve
  \/ UpdateStudentResolve
  \/ LoadExpiredResolve
  \/ RenewClick
  \/ GetStudentResolve
  \/ SeatPrefillTimer
  \/ FetchSeatsForShiftResolve
  \/ PickTotalFee
  \/ HandleRenewSubmit
  \/ RenewStudentResolve
  \/ RefreshResolve
  \/ ResolveUnmounted

SpecReject == InitFee /\ [][NextReject]_vars

\* ---- the fee fields of the edit form and the payload of its submit
\* e.target.value of a fee field: blank, a number, a negative number
PayloadFeeInputs == { << >>, << "1" >>, << "-", "1" >> }

ChangePayloadFee ==
  \E name \in { "totalFee", "cash", "online" }, value \in PayloadFeeInputs :
    HandleChange(name, value)

NextPayload ==
  \/ FetchInitialDataResolve
  \/ FetchSeatsResolve
  \/ FetchAvailableShiftsResolve
  \/ ChangePayloadFee
  \/ ChooseImage
  \/ HandleSubmit
  \/ UploadImageResolve
  \/ UpdateStudentResolve
  \/ ResolveUnmounted

SpecPayload == InitEdit /\ [][NextPayload]_vars

\* ---- the image of the edit form and its upload
\* e.target.files of the file input: nothing, or one file of some type and
\* size (in bytes)
ImageFiles ==
  { << >> } \cup
  { << [type |-> t, size |-> n] >> :
      t \in { "image/jpeg", "image/jpg", "image/png", "image/gif", "image/webp",
              "application/pdf" },
      n \in { 1024, 200 * 1024, 200 * 1024 + 1 } }

ChooseImageFile == \E files \in ImageFiles : HandleImageChange(files)

NextImage ==
  \/ FetchInitialDataResolve
  \/ FetchSeatsResolve
  \/ FetchAvailableShiftsResolve
  \/ ChooseImageFile
  \/ HandleSubmit
  \/ UploadImageResolve
  \/ UpdateStudentResolve
  \/ ResolveUnmounted

SpecImage == InitEdit /\ [][NextImage]_vars

\* ---- the row buttons of the expired-memberships list, for every user
NextAuth ==
  \/ LoadExpiredResolve
  \/ RenewClick
  \/ GetStudentResolve
  \/ SeatPrefillTimer
  \/ FetchSeatsForShiftResolve
  \/ HandleRenewSubmit
  \/ RenewStudentResolve
  \/ RefreshResolve
  \/ CloseRenewDialog
  \/ DeleteClick
  \/ DeleteStudentResolve
  \/ ResolveUnmounted

SpecAuth == InitExpired /\ [][NextAuth]_vars

\* ---- the submit of the edit form from the click to the last answer; a
\* request to the gateway settles in the end (it is answered, refused or
\* times out), so the continuation after each await is weakly fair
NextSubmit ==
  \/ FetchInitialDataResolve
  \/ FetchSeatsResolve
  \/ FetchAvailableShiftsResolve
  \/ ChangeEmail
  \/ ChooseImage
  \/ HandleSubmit
  \/ UploadImageResolve
  \/ UpdateStudentResolve
  \/ NavigateBack
  \/ ResolveUnmounted

\* ---- the edit form opened on any route
\* the id of the route /students/:id/edit as typed into the address bar (a
\* text without a leading minus sign)
RouteParams ==
  { << >>, << "1" >>, << "2" >>, << "3" >>, << "a" >>, << "1", "a" >>, << "a", "1" >>,
    << " ", "2" >>, << "." , "1" >> }

InitRoute ==
  /\ mounted = "edit"
  /\ \E id \in RouteParams : MountEdit(ParseRouteId(id))
  /\ ExpiredUnmounted

SpecRoute == InitRoute /\ [][NextSubmit]_vars

SpecSubmit ==
  /\ InitEdit
  /\ [][NextSubmit]_vars
  /\ WF_vars(UploadImageResolve)
  /\ WF_vars(UpdateStudentResolve)


(***************************************************************************)
(* Claims.                                                                 *)
(***************************************************************************)
\* num of the claims about fees: the value of a text that is a number, 0 for
\* a blank or non-numeric text (in units of 1/Scale)
NumOf(s) ==
  IF ~IsValidFloat(s) THEN 0
  ELSE LET neg  == Head(s) = "-"
           body == IF neg THEN Tail(s) ELSE s
           d    == IndexOf(body, ".")
           int  == IF d = 0 THEN body ELSE Take(body, d - 1)
           frac == IF d = 0 THEN << >> ELSE Drop(body, d)
           mag  == IntOf(int) * Scale + IntOf(frac) * Pow10(FracDigits - Len(frac))
       IN  IF neg THEN 0 - mag ELSE mag

\* C1: on both screens the amount paid shown is num(cash) + num(online) and
\* the due amount shown is num(totalFee) minus that sum, unclamped, with num
\* of a blank or non-numeric text 0; both are shown to two decimals, and
\* both are functions of the three fields alone.
C1_FeesDerived ==
  /\ toFixed2(totalAmountPaid) = toFixed2(NumOf(formData.cash) + NumOf(formData.online))
  /\ toFixed2(dueAmount) =
       toFixed2(NumOf(formData.totalFee) - (NumOf(formData.cash) + NumOf(formData.online)))
  /\ toFixed2(paid) = toFixed2(NumOf(cash) + NumOf(online))
  /\ toFixed2(due) = toFixed2(NumOf(totalFee) - (NumOf(cash) + NumOf(online)))

\* C1 witness: the edit form with a blank online field and more paid than the
\* total fee, so that the due amount shown is negative
C1_Witness ==
  /\ FormShown
  /\ formData.cash = << "1", "1" >> /\ formData.online = << >>
  /\ formData.totalFee = << ".", "1" >>
  /\ toFixed2(totalAmountPaid) = 1100
  /\ toFixed2(dueAmount) = 0 - 1090

\* the same case in the renewal dialog
C1_WitnessDialog ==
  /\ DialogShown
  /\ cash = << "1", "1" >> /\ online = << >> /\ totalFee = << ".", "1" >>
  /\ toFixed2(paid) = 1100 /\ toFixed2(due) = 0 - 1090


\* no request of the given kind is outstanding
NoneInFlight(op) == \A i \in 1..Len(net) : net[i].op # op

\* C2: once the seat list of the newly selected branch has been loaded, a
\* selected seat that is not in that list has been cleared, and for a branch
\* without seats the list is empty and 'None' is the only option.
C2_SeatClearedWithBranch ==
  ( /\ FormShown
    /\ Truthy(formData.branchId)
    /\ NoneInFlight("getSeats")
    /\ seats = SeatsOfBranch(formData.branchId) )
  => /\ formData.seatId \in EditSeatOptions
     /\ SeatsOfBranch(formData.branchId) = {} => EditSeatOptions = {Null}

\* C3: every change made through the seat selector, to another seat, to the
\* same seat or to 'None', leaves shiftIds empty.
C3_SeatChangeClearsShifts ==
  [][ (\E option \in EditSeatOptions : HandleSelectChange("seatId", option))
        => formData'.shiftIds = {} ]_vars

\* C3 witness: member 1 was loaded with seat 1 and shift 2; the selector has
\* moved it to seat 2, the fetch for seat 2 is still out, no shift is selected
C3_Witness ==
  /\ FormShown
  /\ originalStudentData # << >> /\ originalStudentData[1].assignments # << >>
  /\ formData.seatId = 2
  /\ formData.shiftIds = {}
  /\ \E i \in 1..Len(net) : net[i].op = "getAvailableShifts" /\ net[i].seatId = 2

\* the shifts of the assignments the gateway returned for the edited member
LoadedAssignmentShifts ==
  IF originalStudentData = << >> THEN {}
  ELSE { a.shiftId :
           a \in UNION { { st.assignments[k] : k \in 1..Len(st.assignments) } :
                         st \in { x \in GatewayStudents : x.id = studentId } } }

\* C4: a shift option is disabled exactly when a seat is selected and the
\* shift is neither in the available-shifts set held nor one of the member's
\* originally loaded assignments; so a pre-existing assignment is always
\* selectable, and without a seat no shift is disabled.
C4_DisabledShifts ==
  \A shift \in allShifts :
    /\ ShiftIsDisabled(shift) <=>
         ( /\ formData.seatId # Null
           /\ shift \notin availableShifts
           /\ shift \notin LoadedAssignmentShifts )
    /\ shift \in LoadedAssignmentShifts => ~ShiftIsDisabled(shift)
    /\ formData.seatId = Null => ~ShiftIsDisabled(shift)

\* C4 witness: seat 1 is selected and has no available shift; shift 2, the
\* member's own, stays selectable, shift 1 is disabled
C4_Witness ==
  /\ FormShown
  /\ formData.seatId = 1
  /\ NoneInFlight("getAvailableShifts")
  /\ availableShifts = {}
  /\ 2 \in LoadedAssignmentShifts
  /\ ~ShiftIsDisabled(2)
  /\ ShiftIsDisabled(1)

\* the toasts with which handleSubmit aborts a submit
SubmitValidationErrors ==
  { "Name, Phone, Address, Branch, and Membership Dates are required",
    "Please enter a valid email address or leave it empty",
    "Membership End date must be after Membership Start date" }

\* a text that is empty once trimmed
IsBlank(s) == \A k \in 1..Len(s) : IsSpace(s[k])

\* a request of the submit is outstanding
SubmitInFlight == \E i \in 1..Len(net) : net[i].op \in { "uploadImage", "updateStudent" }

\* C5: a submit of the edit form with name, phone or address blank after
\* trimming, or with branch, membership start or membership end empty, issues
\* no request, reports the required-fields error, and leaves the form state
\* and the submitting flag as they were.
C5_RequiredFields ==
  [][ ( /\ HandleSubmit
        /\ \/ \E name \in { "name", "phone", "address" } : IsBlank(formData[name])
           \/ formData.branchId \in { Null, 0 }
           \/ formData.membershipStart = << >>
           \/ formData.membershipEnd = << >> )
      => /\ net' = net
         /\ toast' = "Name, Phone, Address, Branch, and Membership Dates are required"
         /\ formData' = formData
         /\ submitting' = submitting ]_vars

\* C5 witness: member 1 with an image chosen and only the address blanked to
\* a space has been submitted: the error is shown and nothing was sent
C5_Witness ==
  /\ FormShown
  /\ toast = "Name, Phone, Address, Branch, and Membership Dates are required"
  /\ formData.address = << " " >>
  /\ ~IsBlank(formData.name) /\ ~IsBlank(formData.phone)
  /\ formData.branchId = 1
  /\ formData.membershipStart = Day1 /\ formData.membershipEnd = Day2
  /\ formData.image # << >>
  /\ ~SubmitInFlight
  /\ ~submitting

\* year, month and day of a date text YYYY-MM-DD
YMD(s) == << IntOf(SubSeq(s, 1, 4)), IntOf(SubSeq(s, 6, 7)), IntOf(SubSeq(s, 9, 10)) >>

\* the calendar date a is strictly earlier than the calendar date b
CalendarBefore(a, b) ==
  /\ Len(a) = 10 /\ Len(b) = 10
  /\ LET x == YMD(a)
         y == YMD(b)
     IN  \/ x[1] < y[1]
         \/ x[1] = y[1] /\ x[2] < y[2]
         \/ x[1] = y[1] /\ x[2] = y[2] /\ x[3] < y[3]

\* C7: a submit of the edit form whose membership end is not strictly later
\* than its membership start (equal dates included) fails validation and
\* issues no request; every updateStudent request outstanding carries
\* membershipStart < membershipEnd.
C7_EndAfterStart ==
  /\ [][ ( /\ HandleSubmit
           /\ ~CalendarBefore(formData.membershipStart, formData.membershipEnd) )
         => /\ net' = net
            /\ toast' \in SubmitValidationErrors
            /\ submitting' = submitting ]_vars
  /\ [] ( \A i \in 1..Len(net) :
            net[i].op = "updateStudent"
              => CalendarBefore(net[i].payload.membershipStart,
                                net[i].payload.membershipEnd) )

\* C7 witness: with every other field valid, equal dates were submitted and
\* refused with the error about the dates
C7_Witness ==
  /\ FormShown
  /\ toast = "Membership End date must be after Membership Start date"
  /\ formData.membershipStart = Day1 /\ formData.membershipEnd = Day1
  /\ ~SubmitInFlight
  /\ ~submitting

\* C7 witness: an update went out after its image upload although the dates
\* on the form were made equal while the upload was outstanding
C7_WitnessSent ==
  /\ FormShown
  /\ formData.membershipStart = formData.membershipEnd
  /\ \E i \in 1..Len(net) :
       /\ net[i].op = "updateStudent"
       /\ net[i].payload.membershipStart = Day1
       /\ net[i].payload.membershipEnd = Day2

\* C8: a submit of the edit form with an email that is not blank and does not
\* match local@domain.tld fails validation before any request is issued; an
\* empty or whitespace-only email is let through by the email test.
C8_EmailPattern ==
  [][ /\ ( /\ HandleSubmit
           /\ ~IsBlank(formData.email)
           /\ ~validateEmail(formData.email) )
         => /\ net' = net
            /\ toast' \in SubmitValidationErrors
            /\ submitting' = submitting
      /\ ( /\ HandleSubmit
           /\ IsBlank(formData.email) )
         => /\ toast' # "Please enter a valid email address or leave it empty"
            /\ ( /\ ~RequiredMissing(formData)
                 /\ CalendarBefore(formData.membershipStart, formData.membershipEnd) )
               => /\ submitting'
                  /\ Len(net') = Len(net) + 1 ]_vars

\* C8 witness: an email without a top-level part was submitted with every
\* other field valid and refused with the error about the email
C8_Witness ==
  /\ FormShown
  /\ toast = "Please enter a valid email address or leave it empty"
  /\ formData.email = << "a", "@", "a" >>
  /\ ~SubmitInFlight
  /\ ~submitting

\* C8 witness: a whitespace-only email was submitted and the update sent
C8_WitnessBlank ==
  /\ formData.email = << " " >>
  /\ submitting
  /\ \E i \in 1..Len(net) :
       net[i].op = "updateStudent" /\ net[i].payload.email = << " " >>

\* C6: a submit of the renewal dialog with name, phone or address blank, with
\* no branch, no shift or no total fee, or with the start or the end date
\* unset, issues no renewStudent request and reports a validation error; the
\* dialog stays open and its fields keep their values.
C6_RenewRequiredFields ==
  [][ ( /\ HandleRenewSubmit
        /\ \/ IsBlank(nameInput) \/ IsBlank(phoneInput) \/ IsBlank(addressInput)
           \/ selectedBranch = << >>
           \/ selectedShift = << >>
           \/ totalFee = << >>
           \/ startDate = << >>
           \/ endDate = << >> )
      => /\ net' = net
         /\ toast' = "Please ensure Name, Phone, Address, Branch, Shift, and Fee are filled correctly."
         /\ renewDialogOpen'
         /\ UNCHANGED << selectedStudent, emInputs, selectedShift, selectedSeat >> ]_vars

\* C6 witness: the dialog of member 1 was submitted with only the total fee
\* emptied: the error is shown, the dialog is open, nothing was sent
C6_Witness ==
  /\ DialogShown
  /\ toast = "Please ensure Name, Phone, Address, Branch, Shift, and Fee are filled correctly."
  /\ selectedStudent # << >> /\ selectedStudent[1].id = 1
  /\ totalFee = << >>
  /\ ~IsBlank(nameInput) /\ ~IsBlank(phoneInput) /\ ~IsBlank(addressInput)
  /\ selectedBranch # << >> /\ selectedShift # << >>
  /\ startDate # << >> /\ endDate # << >>
  /\ NoneInFlight("renewStudent")

\* C6 witness: the same with only the end date unset
C6_WitnessDate ==
  /\ DialogShown
  /\ toast = "Please ensure Name, Phone, Address, Branch, Shift, and Fee are filled correctly."
  /\ endDate = << >> /\ startDate # << >>
  /\ totalFee # << >>
  /\ ~IsBlank(nameInput) /\ ~IsBlank(phoneInput) /\ ~IsBlank(addressInput)
  /\ selectedBranch # << >> /\ selectedShift # << >>
  /\ NoneInFlight("renewStudent")

\* C9: in no state of the renewal dialog is a seat offered for the selected
\* shift that is held, in that shift, by a member other than the one being
\* renewed.
C9_NoForeignSeatOffered ==
  ( /\ DialogShown
    /\ selectedStudent # << >>
    /\ selectedShift # << >> )
  => \A option \in seatOptions \ {Null} :
       SeatHolder(selectedShift[1].value, option) \in { Null, selectedStudent[1].id }

\* C10: a delete that succeeds removes the deleted member's row from the
\* list shown and no other row, and brings back no row; a delete that fails
\* or was not confirmed leaves the list as it was.
C10_DeleteRemovesItsRow ==
  [][ /\ \A m \in MemberIds :
           ( DeleteStudentResolve /\ db[m] # "deleted" /\ db'[m] = "deleted" )
             => students' = students \ {m}
      /\ ( (DeleteClick \/ DeleteStudentResolve) /\ db' = db )
           => students' = students ]_vars

\* C11: when the gateway rejects updateStudent, the edit form keeps every
\* field, stays on screen and has submitting back to false; when it rejects
\* renewStudent, the renewal dialog keeps every field and stays as it was
\* (open, unless it was closed meanwhile); the submit button of either is
\* enabled again.
C11_RejectionKeepsForm ==
  [][ /\ ( UpdateStudentResolve /\ toast' = "Failed to update student" /\ mounted = "edit" )
         => /\ formData' = formData
            /\ mounted' = "edit"
            /\ ~submitting'
            /\ ~loading' /\ studentId' # Null
      /\ ( RenewStudentResolve /\ toast' = "Failed to renew membership" )
         => /\ UNCHANGED << selectedStudent, emInputs, selectedShift, selectedSeat,
                            renewDialogOpen >>
            /\ mounted' = "expired" ]_vars

\* C11 witness: the update of member 1, sent without an image, was rejected:
\* the form is on screen with the member's data and can be submitted again
C11_Witness ==
  /\ FormShown
  /\ toast = "Failed to update student"
  /\ formData.image = << >>
  /\ formData.name = << "a" >> /\ formData.branchId = 1
  /\ ~submitting
  /\ ~SubmitInFlight

\* C11 witness: the renewal of member 1 was rejected (no renewal has
\* succeeded): the dialog is open with the member's data
C11_WitnessDialog ==
  /\ DialogShown
  /\ toast = "Failed to renew membership"
  /\ \A m \in MemberIds : db[m] = "expired"
  /\ selectedStudent # << >> /\ selectedStudent[1].id = 1
  /\ nameInput = << "a" >> /\ totalFee = << "1", "1" >>
  /\ NoneInFlight("renewStudent")

\* the payload p carries amountPaid and dueAmount as computed from the form f
CarriesPaidAndDue(p, f) ==
  /\ "amountPaid" \in DOMAIN p
  /\ p.amountPaid = NumOf(f.cash) + NumOf(f.online)
  /\ "dueAmount" \in DOMAIN p
  /\ p.dueAmount = NumOf(f.totalFee) - p.amountPaid

\* the payload p carries amountPaid as computed from the form f
CarriesPaid(p, f) ==
  /\ "amountPaid" \in DOMAIN p
  /\ p.amountPaid = NumOf(f.cash) + NumOf(f.online)

\* C12: every updateStudent payload the edit form sends carries amountPaid =
\* num(cash) + num(online) and dueAmount = num(totalFee) - amountPaid, both
\* taken from the form as it was when the submit was made.
C12_PayloadPaidAndDue ==
  [][ /\ ( HandleSubmit /\ Len(net') > Len(net) /\ formData.image = << >> )
         => CarriesPaidAndDue(net'[Len(net')].payload, formData)
      /\ ( UploadImageResolve /\ Len(net') = Len(net) )
         => \E i \in 1..Len(net) :
              /\ net[i].op = "uploadImage"
              /\ CarriesPaidAndDue(net'[Len(net')].payload, net[i].form) ]_vars

\* the part of C12 about amountPaid alone
C12_PayloadPaid ==
  [][ /\ ( HandleSubmit /\ Len(net') > Len(net) /\ formData.image = << >> )
         => CarriesPaid(net'[Len(net')].payload, formData)
      /\ ( UploadImageResolve /\ Len(net') = Len(net) )
         => \E i \in 1..Len(net) :
              /\ net[i].op = "uploadImage"
              /\ CarriesPaid(net'[Len(net')].payload, net[i].form) ]_vars

\* a file of a type and a size the edit form accepts
AcceptableImage(file) ==
  /\ file.type \in { "image/jpeg", "image/jpg", "image/png", "image/gif" }
  /\ file.size <= 204800

\* C13: choosing a file that is not JPEG/JPG/PNG/GIF or is larger than 200KB
\* is rejected with an error and leaves image and profileImageUrl as they
\* were; every uploadImage outstanding carries a file of an allowed type and
\* of at most 200KB.
C13_ImageChecked ==
  /\ [][ \A files \in ImageFiles :
           ( /\ HandleImageChange(files)
             /\ files # << >>
             /\ ~AcceptableImage(files[1]) )
           => /\ formData' = formData
              /\ toast' \in { "Only JPEG, JPG, PNG, and GIF images are allowed",
                              "Image size exceeds 200KB limit" } ]_vars
  /\ [] ( \A i \in 1..Len(net) :
            net[i].op = "uploadImage" => AcceptableImage(net[i].image) )

\* C13 witness: a GIF of exactly 200KB is being uploaded, and the choice of
\* a file made after the submit was rejected for its size
C13_Witness ==
  /\ FormShown
  /\ toast = "Image size exceeds 200KB limit"
  /\ formData.image = << [type |-> "image/gif", size |-> 204800] >>
  /\ \E i \in 1..Len(net) :
       net[i].op = "uploadImage" /\ net[i].image = [type |-> "image/gif", size |-> 204800]

\* C14: a getStudent for a renewal or a renewStudent is only ever outstanding
\* (and the renewal dialog only ever open) for a user whose role is admin; a
\* deleteStudent is only ever outstanding for a user who is admin or whose
\* permissions list contains 'manage_students'.
C14_RoleGates ==
  /\ ( renewDialogOpen \/ ~NoneInFlight("getStudent") \/ ~NoneInFlight("renewStudent") )
       => ( user # << >> /\ user[1].role = "admin" )
  /\ ~NoneInFlight("deleteStudent")
       => /\ user # << >>
          /\ \/ user[1].role = "admin"
             \/ "manage_students" \in user[1].permissions

\* C14 witness: a user who is not admin but holds 'manage_students' has a
\* delete outstanding
C14_Witness ==
  /\ user # << >> /\ user[1].role # "admin"
  /\ "manage_students" \in user[1].permissions
  /\ ~NoneInFlight("deleteStudent")

\* C14 witness: the admin has a renewStudent outstanding
C14_WitnessRenew ==
  /\ user # << >> /\ user[1].role = "admin"
  /\ ~NoneInFlight("renewStudent")

\* C14 witness: a user with a permissions list without 'manage_students'
\* sees the loaded list
C14_WitnessViewer ==
  /\ user # << >> /\ user[1].permissions = { "view" }
  /\ TableShown /\ students # {}

\* C15: every updateStudent request outstanding that carries a seat carries
\* a seat of the branch named in the same payload.
C15_SeatOfBranchSent ==
  \A i \in 1..Len(net) :
    ( net[i].op = "updateStudent" /\ net[i].payload.seatId # Null )
      => net[i].payload.seatId \in SeatsOfBranch(net[i].payload.branchId)

\* C16: no step of the selectors withdraws an outstanding fetch, and a seat
\* fetch or an available-shift fetch that succeeds puts its own response into
\* the seat list or the available-shift set, whichever branch or seat is
\* selected by then: the response that resolves last is the one held.
C16_LastResponseWins ==
  [][ /\ ( PickBranch \/ PickSeat \/ PickShifts )
         => ( Len(net') >= Len(net) /\ SubSeq(net', 1, Len(net)) = net )
      /\ ( FetchSeatsResolve /\ toast' = "" )
         => \E i \in 1..Len(net) :
              /\ net[i].op = "getSeats"
              /\ net' = Remove(net, i)
              /\ seats' = SeatsOfBranch(net[i].branchId)
      /\ ( FetchAvailableShiftsResolve /\ toast' = "" )
         => \E i \in 1..Len(net) :
              /\ net[i].op = "getAvailableShifts"
              /\ net' = Remove(net, i)
              /\ availableShifts' = AvailableShiftsOf(net[i].seatId) ]_vars

\* C16 witness: branch 2 is selected and nothing is outstanding, yet the
\* seat list is that of branch 1, whose response was the last to be taken
C16_Witness ==
  /\ FormShown
  /\ formData.branchId = 2
  /\ seats = SeatsOfBranch(1) /\ seats # SeatsOfBranch(2)
  /\ NoneInFlight("getSeats")
  /\ ~loadingSeats
  /\ toast = ""

\* C16 witness: two seat fetches are outstanding at once, the older one for
\* the branch that was superseded
C16_WitnessTwoOutstanding ==
  /\ FormShown
  /\ formData.branchId = 2
  /\ Len(net) = 2
  /\ net[1].op = "getSeats" /\ net[1].branchId = 1
  /\ net[2].op = "getSeats" /\ net[2].branchId = 2

\* C16 witness: seat 2 is selected, nothing is outstanding, and the
\* available shifts held are those of seat 1
C16_WitnessShifts ==
  /\ FormShown
  /\ formData.seatId = 2
  /\ availableShifts = AvailableShiftsOf(1) /\ availableShifts # AvailableShiftsOf(2)
  /\ NoneInFlight("getAvailableShifts")
  /\ toast = ""

\* the requests of a submit of the edit form that are outstanding
SubmitRequests == { i \in 1..Len(net) : net[i].op \in { "uploadImage", "updateStudent" } }

\* C17: while the form is on screen and a request of its submit is
\* outstanding, submitting is true (the Update button is disabled) and that
\* request is the only one; and a submitting form comes back to submitting =
\* false (or is left) once the submit has succeeded or failed.
C17_OneSubmitAtATime ==
  /\ [] ( /\ Cardinality(SubmitRequests) <= 1
          /\ ( mounted = "edit" /\ SubmitRequests # {} ) => submitting )
  /\ [][ submitting => ~(HandleSubmit /\ mounted' = "edit" /\ toast' = "" /\ net' # net) ]_vars
  /\ ( ( mounted = "edit" /\ submitting ) ~> ( mounted # "edit" \/ ~submitting ) )

\* C17 witness: a submit with an image failed and the form, still on screen,
\* is no longer submitting
C17_Witness ==
  /\ FormShown
  /\ formData.image # << >>
  /\ toast = "Failed to update student"
  /\ ~submitting
  /\ SubmitRequests = {}

\* C17 witness: the update that follows the upload is outstanding
C17_WitnessSubmitting ==
  /\ FormShown
  /\ submitting
  /\ formData.image # << >>
  /\ \E i \in SubmitRequests : net[i].op = "updateStudent"

\* C18: at most one renewStudent request for a member is outstanding at any
\* time.
C18_OneRenewalAtATime ==
  \A m \in MemberIds :
    Cardinality({ i \in 1..Len(net) : net[i].op = "renewStudent" /\ net[i].id = m }) <= 1

\* the terminal view 'Invalid student ID.' is on screen (lines 343-349)
InvalidIdView == mounted = "edit" /\ ~loading /\ studentId = Null

\* C19: with a route id that is no number the edit form has no request
\* outstanding, is not loading and shows the 'Invalid student ID.' view, and
\* no step ever leads anywhere from there.
C19_InvalidIdIsTerminal ==
  /\ [] ( studentId = Null => ( net = << >> /\ InvalidIdView /\ ~FormShown ) )
  /\ [][ studentId # Null ]_vars

\* C19 witness: the form was opened with an id that is no number
C19_Witness ==
  /\ InvalidIdView
  /\ toast = "Invalid student ID."
  /\ net = << >>
  /\ formData = InitialFormData

\* the seat options computed for a shift and a member: the seats nobody else
\* holds in that shift
SeatOptionsFor(shift, member) ==
  { seat \in Seats : SeatHolder(shift, seat) \in { Null, member } }

\* C20: a seat selected in the renewal dialog is one of the seat options
\* computed for the selected shift and the member being renewed, and a
\* renewStudent request outstanding carries no seat held by another member
\* in the shift it names.
C20_SelectedSeatIsAnOption ==
  /\ ( /\ DialogShown
       /\ selectedStudent # << >>
       /\ selectedShift # << >>
       /\ selectedSeat # << >> /\ selectedSeat[1] # Null )
     => selectedSeat[1] \in SeatOptionsFor(selectedShift[1].value, selectedStudent[1].id)
  /\ \A i \in 1..Len(net) :
       ( /\ net[i].op = "renewStudent"
         /\ net[i].payload.seatId # << >> /\ net[i].payload.seatId[1] # Null )
       => net[i].payload.seatId[1] \in SeatOptionsFor(net[i].payload.shiftIds[1], net[i].id)

\* C21: when a submit of the edit form sends its request with a seat
\* selected, every shift selected is enabled at that moment: it is in the
\* available-shifts set held or is one of the member's original assignments.
C21_SubmittedShiftsEnabled ==
  [][ ( /\ HandleSubmit
        /\ Len(net') > Len(net)
        /\ formData.seatId # Null )
      => \A shift \in formData.shiftIds :
           shift \in availableShifts \/ shift \in LoadedAssignmentShifts ]_vars

\* C22: 'Failed to renew membership' is shown only by the step in which a
\* renewStudent request fails; the step in which renewStudent succeeds shows
\* the success and closes the dialog.
C22_RenewFailureMeansRenewFailed ==
  [][ /\ toast' = "Failed to renew membership"
         => ( RenewStudentResolve /\ db' = db )
      /\ ( RenewStudentResolve /\ db' # db )
         => ( toast' = "Membership renewed" /\ ~renewDialogOpen' ) ]_vars

=============================================================================
